---- MODULE Spec2Model ----
(***************************************************************************)
(* Turn orchestrator of the experiment chat client (AIProject/AI_clean.py, *)
(* class ChatWindow, with the globals of AIProject/feature_flags.py).      *)
(*                                                                         *)
(* The Qt event loop runs one callback at a time, so every handler is one  *)
(* atomic action.  What is pending between callbacks is state: worker      *)
(* threads (ChatThread), single-shot timers, the repeating countdown       *)
(* timer, and the stack of modal dialogs whose exec() runs a nested event  *)
(* loop.  Handlers are written as operators from a window record to a      *)
(* window record, composed in the order of the statements of the source;   *)
(* an action applies one handler to the current variables.                 *)
(***************************************************************************)
EXTENDS Integers, Sequences, FiniteSets, TLC

\* ------------------------------------------------------------------ bounds
\* accepted user submissions per session
MaxSubs == 5
\* failed generation requests per session
MaxErrors == 2

\* ------------------------------------------------------- feature_flags.py
FeatureFlag ==
  { "SLOWDOWN", "ERASE_HISTORY", "BLOCK_MSGS", "LIE", "RUDE_TONE", "KIND_TONE",
    "ADVICE_ONLY", "NO_MEMORY", "PERSONA", "AB_TESTING", "AB_UI_TEST",
    "AB_UI_ALT", "SCRIPTED_RESPONSES", "MIRROR", "ANTI_MIRROR",
    "GRAMMAR_ERRORS", "TYPEWRITER", "THINKING", "POSITIVE_FEEDBACK",
    "NEUTRAL_FEEDBACK", "CRITICAL_FEEDBACK", "WEB_SEARCH", "HEDGING_LANGUAGE",
    "DELAY_BEFORE_SEND", "AUTO_END_AFTER_N_MSGS", "AUTO_END_AFTER_T_MIN",
    "TEXT_SIZE_CHANGER", "STREAMING", "CUSTOM_CHAT_TITLE",
    "INTER_TRIAL_SURVEY", "DYNAMIC_FEATURE_CHANGING" }

\* enabled_features = {flag: False for flag in FeatureFlag}, then the flags of on
FlagsOn(on) == [f \in FeatureFlag |-> f \in on]

\* the settings the orchestrator reads, with the values of feature_settings
DefaultSettings ==
  [ delay_seconds |-> 2, auto_end_messages |-> 10, auto_end_minutes |-> 5,
    slowdown_period_s |-> 100, slowdown_window_s |-> 20,
    slowdown_min_delay_s |-> 4, slowdown_permanent_after_enabled |-> FALSE,
    slowdown_permanent_after_s |-> 600, erase_history_delay_s |-> 60,
    erase_history_repeat |-> FALSE, erase_history_interval_s |-> 120,
    block_message_count |-> 5, block_duration_s |-> 15, block_repeat |-> TRUE,
    ab_test_message_threshold |-> 5 ]

\* dict.update(other): overwrite matching keys, keep the others
Update(d, other) ==
  [k \in DOMAIN d \cup DOMAIN other |-> IF k \in DOMAIN other THEN other[k] ELSE d[k]]

\* ------------------------------------------------------------ value shapes
\* a text: who produced it (src) for which submission (sub)
Txt(sub, src) == [sub |-> sub, src |-> src]
\* Python None where a text is expected
NoText == Txt(0, "None")
\* a history entry {"role": ..., "content": ...}
Entry(role, content) == [role |-> role, content |-> content]
\* a running ChatThread: the handler its signals are connected to (role), the
\* submission that started it, and for the rephrase request the text it wraps
Thread(role, sub, base) == [role |-> role, sub |-> sub, base |-> base]
\* a pending QTimer.singleShot (or, for kind "type", the typewriter timer); ts is
\* the submission's timestamp for a pre-send timer, the firing time for a gate timer
Timer(kind, sub, a, b, ts) == [kind |-> kind, sub |-> sub, a |-> a, b |-> b, ts |-> ts]
\* a modal dialog inside exec(), with what the caller does when it returns
Dialog(kind, a, b, cont) == [kind |-> kind, a |-> a, b |-> b, cont |-> cont]
\* self.ab_responses: None (live = FALSE) or {'A': ..., 'B': ...}
NoResponses == [live |-> FALSE, A |-> NoText, B |-> NoText]
\* dict.get(key, default) on a JSON object
Get(obj, key, default) == IF key \in DOMAIN obj THEN obj[key] ELSE default

\* add_system_message: the notice the user sees, by its kind ("blueprint_missing",
\* "complete", "auto_end", "error")
add_system_message(w, kind) == [w EXCEPT !.notices = @ \cup {kind}]
\* no pure function has been called on its own
NoProbe == [fn |-> "none", args |-> <<>>, value |-> <<>>]
\* log.error: a line of the log file, which the user does not see
log_error(w, kind) == [w EXCEPT !.log_errors = @ \cup {kind}]

\* --------------------------------------------------------- flag and setting reads
\* is_enabled(flag): the live flag, off when unknown
is_enabled(w, flag) == flag \in DOMAIN w.enabled_features /\ w.enabled_features[flag]

\* a resolution that never looks at the B-side key
get_setting_value_a_side(w, setting_key, is_option_b) ==
  IF setting_key \in DOMAIN w.feature_settings
    THEN <<w.feature_settings[setting_key]>>
    ELSE <<>>

\* get_setting_value(setting_key, is_option_b): <<>> is None, <<v>> a value
get_setting_value(w, setting_key, is_option_b) ==
  IF is_option_b /\ (setting_key \o "_b") \in DOMAIN w.feature_settings
    THEN <<w.feature_settings[setting_key \o "_b"]>>
    ELSE IF setting_key \in DOMAIN w.feature_settings
           THEN <<w.feature_settings[setting_key]>>
           ELSE <<>>

\* "x = get_setting_value(key, False); if x is None: x = fallback"
SettingOr(w, setting_key, fallback) ==
  LET v == get_setting_value(w, setting_key, FALSE)
  IN  IF v = <<>> THEN fallback ELSE v[1]

Max(a, b) == IF a >= b THEN a ELSE b

\* ------------------------------------------------------------- TimingPolicy
\* a permanent slowdown that starts strictly after its threshold
slowdown_permanent_active_strict(w, now_s) ==
  IF ~is_enabled(w, "SLOWDOWN") THEN FALSE
  ELSE IF ~SettingOr(w, "slowdown_permanent_after_enabled", FALSE) THEN FALSE
  ELSE (now_s - w.session_start_time) > SettingOr(w, "slowdown_permanent_after_s", 600)

slowdown_permanent_active(w, now_s) ==
  IF ~is_enabled(w, "SLOWDOWN") THEN FALSE
  ELSE IF ~SettingOr(w, "slowdown_permanent_after_enabled", FALSE) THEN FALSE
  ELSE (now_s - w.session_start_time) >= SettingOr(w, "slowdown_permanent_after_s", 600)

\* a cyclic check whose period is floored at 0
in_slow_window_period_unfloored(w, send_ts) ==
  IF ~is_enabled(w, "SLOWDOWN") THEN FALSE
  ELSE LET normal_cycle_length == Max(0, SettingOr(w, "slowdown_period_s", 100))
           slow_window_length  == Max(0, SettingOr(w, "slowdown_window_s", 20))
           elapsed             == send_ts - w.session_start_time
       IN  IF slow_window_length <= 0 THEN FALSE
           ELSE (elapsed % (normal_cycle_length + slow_window_length)) >= normal_cycle_length

\* a cyclic check whose slow window starts one second late
in_slow_window_late(w, send_ts) ==
  IF ~is_enabled(w, "SLOWDOWN") THEN FALSE
  ELSE LET normal_cycle_length == Max(1, SettingOr(w, "slowdown_period_s", 100))
           slow_window_length  == Max(0, SettingOr(w, "slowdown_window_s", 20))
           elapsed             == send_ts - w.session_start_time
       IN  IF slow_window_length <= 0 THEN FALSE
           ELSE (elapsed % (normal_cycle_length + slow_window_length)) > normal_cycle_length

in_slow_window(w, send_ts) ==
  IF ~is_enabled(w, "SLOWDOWN") THEN FALSE
  ELSE LET normal_cycle_length == Max(1, SettingOr(w, "slowdown_period_s", 100))
           slow_window_length  == Max(0, SettingOr(w, "slowdown_window_s", 20))
           elapsed             == send_ts - w.session_start_time
       IN  IF slow_window_length <= 0 THEN FALSE
           ELSE (elapsed % (normal_cycle_length + slow_window_length)) >= normal_cycle_length

prepare_turn_slowdown(w, send_ts) ==
  IF ~is_enabled(w, "SLOWDOWN")
    THEN [w EXCEPT !.must_slow_turn = FALSE, !.earliest_display_ts = <<>>]
    ELSE LET perm_active == slowdown_permanent_active(w, send_ts)
             must == perm_active \/ in_slow_window(w, send_ts)
         IN  [w EXCEPT !.must_slow_turn = must,
                       !.permanent_since = @ \/ perm_active,
                       !.earliest_display_ts =
                          IF must THEN <<send_ts + SettingOr(w, "slowdown_min_delay_s", 4)>>
                                  ELSE <<>>]

\* ------------------------------------------------------------- session end
\* _end_chat up to dlg.exec(): the export, then the debrief dialog is open
end_chat(w, cont) ==
  [w EXCEPT !.exports = @ + 1,
            !.dialogs = Append(@, Dialog("debrief", NoText, NoText, cont))]

\* _cleanup_timers, reached from close() through closeEvent: the attributes'
\* timers are stopped; a QTimer.singleShot has no attribute and is not
cleanup_timers(w) ==
  [w EXCEPT !.timers = {t \in @ : t.kind # "type"},
            !.auto_end_timer = FALSE,
            !.block_timer = FALSE,
            !.erase_timer = FALSE]

\* _end_chat after dlg.exec() returned: the window closes, then the caller goes on
end_chat_close(w, cont) ==
  LET c == [cleanup_timers(w) EXCEPT !.closed = TRUE]
  IN  IF cont = "enable_input"
        THEN [c EXCEPT !.input_enabled = TRUE, !.search_enabled = TRUE]
        ELSE c

\* _auto_end_chat: the notice, then _end_chat two seconds later
auto_end_chat(w) ==
  [add_system_message(w, "auto_end")
     EXCEPT !.timers = @ \cup {Timer("end", w.sub, NoText, NoText, 0)}]

check_auto_end_conditions(w) ==
  /\ is_enabled(w, "AUTO_END_AFTER_N_MSGS")
  /\ w.assistant_message_count >= SettingOr(w, "auto_end_messages", 10)

\* ---------------------------------------------------------- BlueprintRunner
\* _setup_erase_history_timer: a new QTimer each call; one already running is
\* neither stopped nor referenced any more
setup_erase_history_timer(w) ==
  IF is_enabled(w, "ERASE_HISTORY")
    THEN [w EXCEPT !.erase_timer = TRUE,
                   !.erase_leaked = IF w.erase_timer THEN @ + 1 ELSE @]
    ELSE w

\* an erasure that also resets the turn count
clear_data_and_count(w) ==
  add_system_message([w EXCEPT !.history = <<>>, !.count = 0], "erased")

\* clear_data: the history emptied, the notice of the erasure
clear_data(w) == add_system_message([w EXCEPT !.history = <<>>], "erased")

\* _handle_erase_timeout, for the window w whose fired timer is already gone:
\* the erasure, then with the repeat toggle a new single-shot timer in
\* self.erase_timer (a timer still running there is no longer referenced)
handle_erase_timeout(w) ==
  LET w1 == [clear_data(w) EXCEPT !.erase_count = @ + 1]
  IN  IF SettingOr(w1, "erase_history_repeat", FALSE)
        THEN [w1 EXCEPT !.erase_timer = TRUE,
                        !.erase_leaked = IF w1.erase_timer THEN @ + 1 ELSE @]
        ELSE w1

\* the flags _apply_block_config leaves: all False, then the block's "features"
\* (a name that is no FeatureFlag raises KeyError and is skipped)
\* step 1 of _apply_block_config left out: the flags keep their values
keep_flags(flags) == flags

\* step 1 of _apply_block_config: every flag reset to False
reset_flags(flags) == [flag \in FeatureFlag |-> FALSE]

\* steps 1 and 2 of _apply_block_config: unknown feature names are skipped
BlockFlags(flags, block_data) ==
  LET active_features == Get(block_data, "features", <<>>)
      cleared == reset_flags(flags)
  IN  [flag \in FeatureFlag |->
         IF flag \in DOMAIN active_features THEN active_features[flag] ELSE cleared[flag]]

apply_block_config(w, block_data) ==
  setup_erase_history_timer(
    [w EXCEPT !.enabled_features = BlockFlags(@, block_data),
              !.feature_settings = Update(@, Get(block_data, "settings", <<>>))])

\* a runner that starts over with block 0 after the last block
next_block_index_restarting(w) == (w.current_block_index + 1) % Len(w.experiment_plan)

\* self.current_block_index += 1
next_block_index(w) == w.current_block_index + 1

\* _start_next_block; cont is what its caller does after it returns
start_next_block(w, cont) ==
  IF w.experiment_plan = <<>> THEN w
  ELSE LET i == next_block_index(w)
           w1 == [w EXCEPT !.current_block_index = i]
       IN  IF i >= Len(w.experiment_plan)
             THEN end_chat(add_system_message(w1, "complete"), cont)
             ELSE apply_block_config([w1 EXCEPT !.messages_in_current_block = 0],
                                     w.experiment_plan[i + 1])

\* ----------------------------------------------------------------- blocking
start_block(w) ==
  [w EXCEPT !.blocking = TRUE,
            !.remaining = SettingOr(w, "block_duration_s", 15),
            !.block_timer = TRUE,
            !.block_leaked = IF w.block_timer THEN @ + 1 ELSE @,
            !.input_enabled = FALSE]

update_countdown(w) ==
  IF w.remaining > 0
    THEN [w EXCEPT !.remaining = @ - 1]
    ELSE [w EXCEPT !.block_timer = FALSE, !.blocking = FALSE,
                   !.input_enabled = TRUE, !.search_enabled = TRUE]

\* a cooldown test that, with the repeat toggle off, fires from the threshold on
block_due_from_threshold(w) ==
  LET message_threshold == SettingOr(w, "block_message_count", 5)
  IN  IF SettingOr(w, "block_repeat", TRUE)
        THEN w.count > 0 /\ w.count % message_threshold = 0
        ELSE w.count >= message_threshold

\* the test of _finish_response that starts a cooldown
block_due(w) ==
  LET message_threshold == SettingOr(w, "block_message_count", 5)
  IN  IF SettingOr(w, "block_repeat", TRUE)
        THEN w.count > 0 /\ w.count % message_threshold = 0
        ELSE w.count = message_threshold

\* ------------------------------------------------------------- turn commit
\* the re-enabling of the input controls (input field and Send; Search Web)
enable_input(w) == [w EXCEPT !.input_enabled = TRUE, !.search_enabled = TRUE]

\* _finish_response in blueprint mode, after the counters (lines 3240-3259).
\* experiment_plan[current_block_index] raises IndexError once the index is
\* past the last block: the handler stops there.
\* the block's duration test with the boundary one commit late
block_complete_late(messages, duration) == messages > duration

\* the block's duration test of _finish_response
block_complete(messages, duration) == messages >= duration

finish_blueprint(w) ==
  LET w1 == [w EXCEPT !.messages_in_current_block = @ + 1]
      n  == Len(w.experiment_plan)
      i  == IF w.current_block_index < 0 THEN n + w.current_block_index
                                          ELSE w.current_block_index
  IN  IF i < 0 \/ i >= n THEN w1
      ELSE LET duration == Get(w.experiment_plan[i + 1], "duration_messages", 10)
           IN  IF block_complete(w1.messages_in_current_block, duration)
                 THEN LET w2 == start_next_block(w1, "enable_input")
                      IN  \* _end_chat inside: the rest runs when its dialog returns
                          IF Len(w2.dialogs) > Len(w1.dialogs) THEN w2
                          ELSE enable_input(w2)
                 ELSE enable_input(w1)

\* _finish_response in standard mode, after the counters (lines 3261-3291)
\* a reset that forgets the flag and keeps the timestamp
reset_slow_flag_only(w) == [w EXCEPT !.must_slow_turn = FALSE]

\* the reset of the turn's timing decision in _finish_response (lines 3268-3269)
reset_slow(w) == [w EXCEPT !.must_slow_turn = FALSE, !.earliest_display_ts = <<>>]

finish_standard(w) ==
  LET trigger_count == Get(w.feature_settings, "survey_trigger_count", 5)
      w1 == IF /\ is_enabled(w, "INTER_TRIAL_SURVEY")
               /\ w.assistant_message_count > 0
               /\ w.assistant_message_count % trigger_count = 0
              THEN [w EXCEPT !.timers = @ \cup {Timer("survey", w.count, NoText, NoText, 0)}]
              ELSE w
      w2 == reset_slow(w1)
  IN  IF check_auto_end_conditions(w2) THEN auto_end_chat(w2)
      ELSE IF is_enabled(w2, "BLOCK_MSGS") /\ block_due(w2) THEN start_block(w2)
      ELSE enable_input(w2)

\* a commit that leaves the assistant-turn count alone
commit_turn_count_only(w, reply) ==
  [w EXCEPT !.last_ab_choice = "",
            !.ab_responses = NoResponses,
            !.history = Append(@, Entry("assistant", reply)),
            !.count = @ + 1,
            !.turn = 0]

\* the commit of _finish_response (lines 3232-3237)
commit_turn(w, reply) ==
  [w EXCEPT !.last_ab_choice = "",
            !.ab_responses = NoResponses,
            !.history = Append(@, Entry("assistant", reply)),
            !.count = @ + 1,
            !.assistant_message_count = @ + 1,
            !.turn = 0]

finish_response(w, reply) ==
  LET w1 == commit_turn(w, reply)
  IN  IF w1.experiment_plan # <<>> THEN finish_blueprint(w1) ELSE finish_standard(w1)

\* _display_response; add_message(None) cannot build its bubble and raises
display_response(w, reply) ==
  IF is_enabled(w, "STREAMING") /\ w.streaming_bubble
    THEN finish_response([w EXCEPT !.streaming_bubble = FALSE], reply)
  ELSE IF reply = NoText THEN w
  ELSE IF is_enabled(w, "TYPEWRITER")
    THEN [w EXCEPT !.typebuf = reply,
                   !.timers = @ \cup {Timer("type", w.sub, NoText, NoText, 0)}]
  ELSE finish_response(w, reply)

\* _show_ab_dialog up to dialog.exec(); ABTestingDialog cannot lay out a None
\* text and raises before it is shown
show_ab_dialog(w, content_a, content_b) ==
  IF content_a = NoText \/ content_b = NoText THEN w
  ELSE [w EXCEPT !.dialogs = Append(@, Dialog("ab", content_a, content_b, "none"))]

\* a dismissed comparison that falls back to the alternate side
cancelled_choice_b(d) == d.b

\* the text shown when the comparison is closed without a choice (Option A)
cancelled_choice(d) == d.a

\* _show_ab_dialog after dialog.exec(): sel is "A" or "B" (accepted), "" (closed)
ab_dialog_done(w, d, sel) ==
  IF sel = "" THEN display_response(w, cancelled_choice(d))
  ELSE LET w1 == [w EXCEPT !.last_ab_choice = sel]
       IN  IF sel = "A" THEN display_response(w1, d.a)
                        ELSE finish_response(w1, d.b)

\* proceed() of _on_ui_ab_response after dialog.exec()
ui_dialog_done(w, d, sel) ==
  IF sel = "" THEN finish_response(w, d.a)
  ELSE finish_response([w EXCEPT !.last_ab_choice = sel], d.a)

\* ---------------------------------------------------------------- reveal gate
\* the closures handed to _maybe_delay_then, by the handler that builds them
proceed(w, fn, a, b) ==
  CASE fn = "response"  -> display_response(w, a)
    [] fn = "ab"        -> \* reads self.ab_responses when it runs
                           IF ~w.ab_responses.live THEN w
                           ELSE show_ab_dialog(w, w.ab_responses.A, w.ab_responses.B)
    [] fn = "ui_ab"     -> [w EXCEPT !.dialogs = Append(@, Dialog("ui", a, a, "none"))]
    [] fn = "alt"       -> show_ab_dialog(w, a, b)
    [] fn = "scripted_ab" -> show_ab_dialog(w, a, b)
    [] OTHER            -> w

\* a gate that never waits
gate_remaining_none(w) == 0

\* the time still to wait before the turn's response may be shown
gate_remaining(w) ==
  IF w.must_slow_turn /\ w.earliest_display_ts # <<>>
    THEN Max(0, w.earliest_display_ts[1] - w.now)
    ELSE 0

maybe_delay_then(w, fn, a, b) ==
  IF gate_remaining(w) > 0
    THEN [w EXCEPT !.timers = @ \cup {Timer(fn, w.sub, a, b, w.now + gate_remaining(w))}]
    ELSE proceed(w, fn, a, b)

\* ------------------------------------------------------- completion handlers
on_response(w, reply) == maybe_delay_then(w, "response", reply, NoText)

\* ab_ready with the count off by one
ab_ready_after_one(n) == n = 1

\* the test of _on_ab_response that opens the comparison
ab_ready(n) == n = 2

\* _on_ab_response; with self.ab_responses None the first statement raises
on_ab_response(w, reply, version) ==
  IF ~w.ab_responses.live THEN w
  ELSE LET w1 == [w EXCEPT !.ab_responses[version] = reply,
                           !.ab_responses_ready = @ + 1]
       IN  IF ab_ready(w1.ab_responses_ready)
             THEN maybe_delay_then(w1, "ab", NoText, NoText)
             ELSE w1

on_ui_ab_response(w, reply) == maybe_delay_then(w, "ui_ab", reply, NoText)

\* _start_and_track
start_and_track(w, thread) == [w EXCEPT !.threads = @ \cup {thread}]

\* a workflow that issues the rewrite request together with the primary one
start_ab_ui_alt_workflow_parallel(w, sub) ==
  start_and_track(start_and_track(w, Thread("alt_base", sub, NoText)),
                  Thread("alt_rephrase", sub, NoText))

\* _start_ab_ui_alt_workflow: the request for the base response
start_ab_ui_alt_workflow(w, sub) == start_and_track(w, Thread("alt_base", sub, NoText))

on_base_response_for_alt_ui(w, t, base_reply) ==
  start_and_track(w, Thread("alt_rephrase", t.sub, base_reply))

on_rephrased_response_for_alt_ui(w, base_reply, rephrased_reply) ==
  maybe_delay_then(w, "alt", base_reply, rephrased_reply)

\* an error handler that shows no notice
on_error_quiet(w) == enable_input(w)

\* _on_error: the notice, then the input controls re-enabled
on_error(w) == enable_input(add_system_message(w, "error"))

\* what result_ready of thread t is connected to
on_result(w, t) ==
  LET reply == Txt(t.sub, t.role)
  IN  CASE t.role \in {"single", "web"} -> on_response(w, reply)
        [] t.role \in {"A", "B"}        -> on_ab_response(w, reply, t.role)
        [] t.role = "ui"                -> on_ui_ab_response(w, reply)
        [] t.role = "alt_base"          -> on_base_response_for_alt_ui(w, t, reply)
        [] t.role = "alt_rephrase"      -> on_rephrased_response_for_alt_ui(w, t.base, reply)
        [] OTHER                        -> w

\* ------------------------------------------------------------------ dispatch
\* the test of _send_after_delay for a comparison-trial turn
is_ab_turn(w) ==
  is_enabled(w, "AB_TESTING") /\ (w.count + 1) % w.ab_test_threshold = 0

\* the test of _send_after_delay for a step left in the script
script_has_step(w) == w.script_index < Len(w.script)

\* content_feature_mappings of _send_after_delay, in the order of the loop
content_feature_mappings ==
  << <<"ab_lie_b", "LIE">>, <<"ab_rude_tone_b", "RUDE_TONE">>,
     <<"ab_kind_tone_b", "KIND_TONE">>, <<"ab_advice_only_b", "ADVICE_ONLY">>,
     <<"ab_no_memory_b", "NO_MEMORY">>, <<"ab_persona_b", "PERSONA">>,
     <<"ab_mirror_b", "MIRROR">>, <<"ab_anti_mirror_b", "ANTI_MIRROR">>,
     <<"ab_grammar_errors_b", "GRAMMAR_ERRORS">>,
     <<"ab_positive_feedback_b", "POSITIVE_FEEDBACK">>,
     <<"ab_critical_feedback_b", "CRITICAL_FEEDBACK">>,
     <<"ab_neutral_feedback_b", "NEUTRAL_FEEDBACK">>,
     <<"ab_hedging_b", "HEDGING_LANGUAGE">> >>

\* ui_feature_mappings of _send_after_delay
ui_feature_mappings ==
  << <<"ab_streaming_b", "STREAMING">>,
     <<"ab_text_size_changer_b", "TEXT_SIZE_CHANGER">>,
     <<"ab_typewriter_b", "TYPEWRITER">>, <<"ab_thinking_b", "THINKING">> >>

\* a loop that clears nothing when it sets a flag
cleared_with_none(flag) == {}

\* the flags the loop sets to False when it sets flag to True
cleared_with(flag) ==
  CASE flag = "RUDE_TONE"   -> {"KIND_TONE"}
    [] flag = "KIND_TONE"   -> {"RUDE_TONE"}
    [] flag = "MIRROR"      -> {"ANTI_MIRROR"}
    [] flag = "ANTI_MIRROR" -> {"MIRROR"}
    [] flag \in {"POSITIVE_FEEDBACK", "CRITICAL_FEEDBACK", "NEUTRAL_FEEDBACK"}
         -> {"POSITIVE_FEEDBACK", "CRITICAL_FEEDBACK", "NEUTRAL_FEEDBACK"} \ {flag}
    [] OTHER                -> {}

\* for setting_key, flag in mappings, from entry i on: a true setting sets its
\* flag and, where exclusive is TRUE, clears the flags it excludes
RECURSIVE apply_mappings(_, _, _, _, _)
apply_mappings(settings, mappings, i, exclusive, features) ==
  IF i > Len(mappings) THEN features
  ELSE LET setting_key == mappings[i][1]
           flag == mappings[i][2]
           next == IF Get(settings, setting_key, FALSE)
                     THEN [f \in DOMAIN features |->
                             IF f = flag THEN TRUE
                             ELSE IF exclusive /\ f \in cleared_with(flag) THEN FALSE
                             ELSE features[f]]
                     ELSE features
       IN  apply_mappings(settings, mappings, i + 1, exclusive, next)

\* option_b_features as _send_after_delay hands it to thread_b
option_b_features(settings) ==
  apply_mappings(settings, ui_feature_mappings, 1, FALSE,
    apply_mappings(settings, content_feature_mappings, 1, TRUE,
                   [flag \in FeatureFlag |-> FALSE]))

\* a step 5 that builds the alternate set in the live dict instead of a new one
paired_dispatch_in_place(w, sub) ==
  start_and_track(
    start_and_track(
      [w EXCEPT !.ab_responses = [live |-> TRUE, A |-> NoText, B |-> NoText],
                !.ab_responses_ready = 0,
                !.enabled_features =
                   apply_mappings(w.feature_settings, ui_feature_mappings, 1, FALSE,
                     apply_mappings(w.feature_settings, content_feature_mappings, 1, TRUE, @))],
      Thread("A", sub, NoText)),
    Thread("B", sub, NoText))

\* step 5 of _send_after_delay: the responses reset, option_b_features built as
\* a dict of its own for thread_b, the live dict handed to thread_a unchanged
paired_dispatch(w, sub) ==
  start_and_track(
    start_and_track([w EXCEPT !.ab_responses = [live |-> TRUE, A |-> NoText, B |-> NoText],
                              !.ab_responses_ready = 0],
                    Thread("A", sub, NoText)),
    Thread("B", sub, NoText))

\* live dispatch of _send_after_delay (lines 2846-2943)
live_dispatch(w, sub) ==
  IF is_ab_turn(w) /\ is_enabled(w, "AB_UI_ALT") THEN start_ab_ui_alt_workflow(w, sub)
  ELSE IF is_ab_turn(w) /\ is_enabled(w, "AB_UI_TEST")
    THEN start_and_track(w, Thread("ui", sub, NoText))
  ELSE IF is_ab_turn(w) THEN paired_dispatch(w, sub)
  ELSE start_and_track(w, Thread("single", sub, NoText))

\* a cursor that skips a step
advance_cursor_twice(script_index) == script_index + 2

\* self.script_index += 1
advance_cursor(script_index) == script_index + 1

\* the scripted branch of _send_after_delay (lines 2804-2839)
scripted_dispatch(w, sub) ==
  LET current_step == w.script[w.script_index + 1]
      w1 == [w EXCEPT !.script_index = advance_cursor(@)]
      step_type == Get(current_step, "type", "normal")
  IN  IF step_type = "normal"
        THEN [w1 EXCEPT !.timers = @ \cup
               {Timer("script", sub,
                      Get(current_step, "response", Txt(0, "SCRIPT ERROR: Missing 'response' key")),
                      NoText, 0)}]
      ELSE IF step_type = "ab_test"
        THEN maybe_delay_then(w1, "scripted_ab",
               Get(current_step, "response_a", Txt(0, "SCRIPT ERROR: Missing 'response_a'")),
               Get(current_step, "response_b", Txt(0, "SCRIPT ERROR: Missing 'response_b'")))
      ELSE live_dispatch(w1, sub)

send_after_delay(w, sub, sent_ts) ==
  LET w1 == prepare_turn_slowdown(w, sent_ts)
  IN  IF is_enabled(w1, "SCRIPTED_RESPONSES") /\ script_has_step(w1)
        THEN scripted_dispatch(w1, sub)
        ELSE live_dispatch(w1, sub)

web_search_after_delay(w, sub, sent_ts) ==
  start_and_track(prepare_turn_slowdown(w, sent_ts), Thread("web", sub, NoText))

\* send_message and send_with_web_search up to the pre-send delay: the user
\* entry, the controls disabled, then the dispatch now or on a timer that
\* carries the submission's own timestamp
submit(w, web) ==
  LET sub == w.sub + 1
      w1 == [w EXCEPT !.sub = sub, !.turn = sub,
                      !.history = Append(@, Entry("user", Txt(sub, "user"))),
                      !.input_enabled = FALSE,
                      !.search_enabled = FALSE]
  IN  IF is_enabled(w1, "DELAY_BEFORE_SEND")
        THEN [w1 EXCEPT !.timers = @ \cup
               {Timer(IF web THEN "delay_web" ELSE "delay", sub, NoText, NoText, w.now)}]
        ELSE IF web THEN web_search_after_delay(w1, sub, w.now)
                    ELSE send_after_delay(w1, sub, w.now)

send_message(w) == submit(w, FALSE)
send_with_web_search(w) == submit(w, TRUE)

\* a single-shot timer's callback
on_timer(w, t) ==
  CASE t.kind = "delay"     -> send_after_delay(w, t.sub, t.ts)
    [] t.kind = "delay_web" -> web_search_after_delay(w, t.sub, t.ts)
    [] t.kind = "script"    -> on_response(w, t.a)
    [] t.kind = "type"      -> finish_response(w, w.typebuf)
    [] t.kind = "end"       -> end_chat(w, "none")
    [] t.kind = "survey"    -> [w EXCEPT !.dialogs = Append(@, Dialog("survey", NoText, NoText, "none"))]
    [] OTHER                -> proceed(w, t.kind, t.a, t.b)

\* ---------------------------------------------------------------- the state
VARIABLES
  enabled_features, feature_settings,   \* the globals of feature_flags.py
  script,                               \* _SCRIPTED_CONVO_CACHE: the script file's steps
  experiment_plan,                      \* <<>> is None
  current_block_index, messages_in_current_block,
  history, count, assistant_message_count,
  blocking, remaining,
  block_timer, block_leaked,            \* self.block_timer runs; older countdown timers still running
  must_slow_turn, earliest_display_ts,  \* <<>> is None
  session_start_time, now,
  ab_test_threshold, ab_responses, ab_responses_ready, last_ab_choice,
  script_index,
  threads,                              \* the ChatThreads running
  timers,                               \* the single-shots pending
  dialogs,                              \* the modal dialogs inside exec(), innermost last
  input_enabled, search_enabled,        \* input field and Send button; Search Web button
  search_visible, end_visible,
  closed,                               \* close() has run
  erase_timer, erase_leaked, auto_end_timer,
  typebuf, streaming_bubble,
  exports,                              \* calls of export_data()
  sub,                                  \* submissions accepted so far (names the texts)
  errors,                               \* requests that have failed so far
  turn,                                 \* the submission whose turn is in progress, 0 when
                                        \* none: set when a message is accepted, cleared by a
                                        \* commit and by an error notice for that submission
  notices,                              \* the kinds of add_system_message shown so far
  log_errors,                           \* the kinds of log.error written so far
  erase_count,                          \* self.erase_count: erasures of the history so far
  permanent_since,                      \* a turn has been sent with the permanent
                                        \* slowdown active
  probe                                 \* the last call of a pure function made on its own:
                                        \* [fn, args, value], NoProbe when none

vars ==
  << enabled_features, feature_settings, script, experiment_plan,
     current_block_index, messages_in_current_block, history, count,
     assistant_message_count, blocking, remaining, block_timer, block_leaked,
     must_slow_turn, earliest_display_ts, session_start_time, now,
     ab_test_threshold, ab_responses, ab_responses_ready, last_ab_choice,
     script_index, threads, timers, dialogs, input_enabled, search_enabled,
     search_visible, end_visible, closed, erase_timer, erase_leaked,
     auto_end_timer, typebuf, streaming_bubble, exports, sub, errors, turn,
     notices, log_errors, erase_count, permanent_since, probe >>

\* the current state as the record the handlers work on
W ==
  [ enabled_features |-> enabled_features, feature_settings |-> feature_settings,
    script |-> script, experiment_plan |-> experiment_plan,
    current_block_index |-> current_block_index,
    messages_in_current_block |-> messages_in_current_block,
    history |-> history, count |-> count,
    assistant_message_count |-> assistant_message_count,
    blocking |-> blocking, remaining |-> remaining,
    block_timer |-> block_timer, block_leaked |-> block_leaked,
    must_slow_turn |-> must_slow_turn, earliest_display_ts |-> earliest_display_ts,
    session_start_time |-> session_start_time, now |-> now,
    ab_test_threshold |-> ab_test_threshold, ab_responses |-> ab_responses,
    ab_responses_ready |-> ab_responses_ready, last_ab_choice |-> last_ab_choice,
    script_index |-> script_index, threads |-> threads, timers |-> timers,
    dialogs |-> dialogs, input_enabled |-> input_enabled,
    search_enabled |-> search_enabled, search_visible |-> search_visible,
    end_visible |-> end_visible, closed |-> closed, erase_timer |-> erase_timer,
    erase_leaked |-> erase_leaked, auto_end_timer |-> auto_end_timer,
    typebuf |-> typebuf, streaming_bubble |-> streaming_bubble,
    exports |-> exports, sub |-> sub, errors |-> errors, turn |-> turn,
    notices |-> notices, log_errors |-> log_errors,
    erase_count |-> erase_count,
    permanent_since |-> permanent_since, probe |-> probe ]

\* the next state is the record w
Becomes(w) ==
  /\ enabled_features' = w.enabled_features
  /\ feature_settings' = w.feature_settings
  /\ script' = w.script
  /\ experiment_plan' = w.experiment_plan
  /\ current_block_index' = w.current_block_index
  /\ messages_in_current_block' = w.messages_in_current_block
  /\ history' = w.history
  /\ count' = w.count
  /\ assistant_message_count' = w.assistant_message_count
  /\ blocking' = w.blocking
  /\ remaining' = w.remaining
  /\ block_timer' = w.block_timer
  /\ block_leaked' = w.block_leaked
  /\ must_slow_turn' = w.must_slow_turn
  /\ earliest_display_ts' = w.earliest_display_ts
  /\ session_start_time' = w.session_start_time
  /\ now' = w.now
  /\ ab_test_threshold' = w.ab_test_threshold
  /\ ab_responses' = w.ab_responses
  /\ ab_responses_ready' = w.ab_responses_ready
  /\ last_ab_choice' = w.last_ab_choice
  /\ script_index' = w.script_index
  /\ threads' = w.threads
  /\ timers' = w.timers
  /\ dialogs' = w.dialogs
  /\ input_enabled' = w.input_enabled
  /\ search_enabled' = w.search_enabled
  /\ search_visible' = w.search_visible
  /\ end_visible' = w.end_visible
  /\ closed' = w.closed
  /\ erase_timer' = w.erase_timer
  /\ erase_leaked' = w.erase_leaked
  /\ auto_end_timer' = w.auto_end_timer
  /\ typebuf' = w.typebuf
  /\ streaming_bubble' = w.streaming_bubble
  /\ exports' = w.exports
  /\ sub' = w.sub
  /\ errors' = w.errors
  /\ turn' = w.turn
  /\ notices' = w.notices
  /\ log_errors' = w.log_errors
  /\ erase_count' = w.erase_count
  /\ permanent_since' = w.permanent_since
  /\ probe' = w.probe

\* ------------------------------------------------------------ construction
\* ChatWindow.__init__ line 2285: the trial interval, read once
init_ab_test_threshold(settings) ==
  LET ab_thresh == Get(settings, "ab_test_message_threshold", 0)
  IN  IF "ab_test_message_threshold" \notin DOMAIN settings \/ ab_thresh < 1 THEN 5
      ELSE ab_thresh

\* _initialize_blueprint_mode: file is [status, plan]; a missing file and one
\* json.load rejects leave experiment_plan None
initialize_blueprint_mode(w, file) ==
  IF file.status = "missing"
    THEN add_system_message(log_error(w, "blueprint_missing"), "blueprint_missing")
  ELSE IF file.status = "unparseable"
    THEN log_error(w, "blueprint_unparseable")
  ELSE start_next_block([w EXCEPT !.experiment_plan = file.plan], "none")

\* the window ChatWindow() returns for the flags, settings, script file and
\* blueprint file the control panel has set up, shown by _start_chat
NewChatWindow(flags, settings, script_file, blueprint_file) ==
  LET w0 == [ enabled_features |-> FlagsOn(flags), feature_settings |-> settings,
              script |-> script_file, experiment_plan |-> <<>>,
              current_block_index |-> -1, messages_in_current_block |-> 0,
              history |-> <<>>, count |-> 0, assistant_message_count |-> 0,
              blocking |-> FALSE, remaining |-> 0,
              block_timer |-> FALSE, block_leaked |-> 0,
              must_slow_turn |-> FALSE, earliest_display_ts |-> <<>>,
              session_start_time |-> 0, now |-> 0,
              ab_test_threshold |-> init_ab_test_threshold(settings),
              ab_responses |-> NoResponses, ab_responses_ready |-> 0,
              last_ab_choice |-> "", script_index |-> 0,
              threads |-> {}, timers |-> {}, dialogs |-> <<>>,
              input_enabled |-> TRUE, search_enabled |-> TRUE,
              search_visible |-> FALSE,
              end_visible |-> ~("AUTO_END_AFTER_N_MSGS" \in flags \/ "AUTO_END_AFTER_T_MIN" \in flags),
              closed |-> FALSE, erase_timer |-> FALSE, erase_leaked |-> 0,
              auto_end_timer |-> "AUTO_END_AFTER_T_MIN" \in flags,
              typebuf |-> NoText, streaming_bubble |-> FALSE,
              exports |-> 0, sub |-> 0, errors |-> 0, turn |-> 0,
              notices |-> {}, log_errors |-> {}, erase_count |-> 0,
              permanent_since |-> FALSE,
              probe |-> NoProbe ]
      w1 == setup_erase_history_timer(w0)
      w2 == IF is_enabled(w1, "DYNAMIC_FEATURE_CHANGING")
              THEN initialize_blueprint_mode(w1, blueprint_file) ELSE w1
  IN  [w2 EXCEPT !.search_visible = is_enabled(w2, "WEB_SEARCH")]

\* --------------------------------------------------------------- scenarios
NoBlueprint == [status |-> "missing", plan |-> <<>>]

Settings(over) == Update(DefaultSettings, over)

\* content comparison trials every 2nd turn, a cooldown every 2nd turn
ScenarioAB ==
  [ flags |-> {"AB_TESTING", "BLOCK_MSGS", "WEB_SEARCH"},
    settings |-> Settings([ab_test_message_threshold |-> 2, block_message_count |-> 2,
                           block_duration_s |-> 1, ab_kind_tone_b |-> TRUE]),
    script |-> <<>>, blueprint |-> NoBlueprint ]

\* a script of three steps, the last without its text, over comparison trials
ScenarioScript ==
  [ flags |-> {"SCRIPTED_RESPONSES", "AB_TESTING", "WEB_SEARCH"},
    settings |-> Settings([ab_test_message_threshold |-> 2]),
    script |-> << [type |-> "normal", response |-> Txt(0, "step1")],
                  [type |-> "ab_test", response_a |-> Txt(0, "step2a"),
                                       response_b |-> Txt(0, "step2b")],
                  [type |-> "normal"] >>,
    blueprint |-> NoBlueprint ]

\* a script whose first step has a null text ("response": null) and whose
\* second step is complete
ScenarioScriptNull ==
  [ flags |-> {"SCRIPTED_RESPONSES"},
    settings |-> Settings(<<>>),
    script |-> << [type |-> "normal", response |-> NoText],
                  [type |-> "normal", response |-> Txt(0, "step2")] >>,
    blueprint |-> NoBlueprint ]

\* a blueprint of two blocks, durations 2 and 3
ScenarioBlueprint ==
  [ flags |-> {"DYNAMIC_FEATURE_CHANGING", "LIE"},
    settings |-> Settings([ab_test_message_threshold |-> 2]),
    script |-> <<>>,
    blueprint |-> [status |-> "ok", plan |->
      << [name |-> "b0", duration_messages |-> 2,
          features |-> [KIND_TONE |-> TRUE, AB_TESTING |-> TRUE, NOT_A_FLAG |-> TRUE],
          settings |-> [block_duration_s |-> 2]],
         [name |-> "b1", duration_messages |-> 3,
          features |-> [RUDE_TONE |-> TRUE, LIE |-> FALSE]] >>] ]

\* a blueprint of three blocks, durations 1, 1 and 2, the second with no overrides
ScenarioBlueprint3 ==
  [ flags |-> {"DYNAMIC_FEATURE_CHANGING", "AB_TESTING", "BLOCK_MSGS"},
    settings |-> Settings([ab_test_message_threshold |-> 1]),
    script |-> <<>>,
    blueprint |-> [status |-> "ok", plan |->
      << [name |-> "b0", duration_messages |-> 1,
          features |-> [PERSONA |-> TRUE, DELAY_BEFORE_SEND |-> TRUE]],
         [name |-> "b1", duration_messages |-> 1],
         [name |-> "b2", duration_messages |-> 2,
          features |-> [AB_TESTING |-> TRUE, AB_UI_TEST |-> TRUE]] >>] ]

\* blueprint mode switched on, the blueprint file absent
ScenarioBlueprintMissing ==
  [ flags |-> {"DYNAMIC_FEATURE_CHANGING", "KIND_TONE"},
    settings |-> Settings(<<>>),
    script |-> <<>>, blueprint |-> NoBlueprint ]

\* blueprint mode switched on, the blueprint file not valid JSON
ScenarioBlueprintUnparseable ==
  [ flags |-> {"DYNAMIC_FEATURE_CHANGING", "KIND_TONE"},
    settings |-> Settings(<<>>),
    script |-> <<>>, blueprint |-> [status |-> "unparseable", plan |-> <<>>] ]

\* a fixed pre-send delay, live single dispatch, and the message-count auto-end
ScenarioPlain ==
  [ flags |-> {"DELAY_BEFORE_SEND", "AUTO_END_AFTER_N_MSGS"},
    settings |-> Settings([auto_end_messages |-> 3]),
    script |-> <<>>, blueprint |-> NoBlueprint ]

\* the sequential-alternate comparison on every 2nd turn
ScenarioAlt ==
  [ flags |-> {"AB_TESTING", "AB_UI_ALT"},
    settings |-> Settings([ab_test_message_threshold |-> 2]),
    script |-> <<>>, blueprint |-> NoBlueprint ]

\* the message-count auto-end after 2 turns, a comparison trial on every 2nd turn
ScenarioAutoEnd ==
  [ flags |-> {"AB_TESTING", "AUTO_END_AFTER_N_MSGS"},
    settings |-> Settings([ab_test_message_threshold |-> 2, auto_end_messages |-> 2]),
    script |-> <<>>, blueprint |-> NoBlueprint ]

Scenarios ==
  { ScenarioAB, ScenarioScript, ScenarioBlueprint, ScenarioBlueprint3,
    ScenarioBlueprintMissing, ScenarioBlueprintUnparseable,
    ScenarioPlain, ScenarioAlt, ScenarioAutoEnd, ScenarioScriptNull }

\* ------------------------------------------------------------------ actions
\* the session starts as the window w
Starts(w) ==
  /\ enabled_features = w.enabled_features
  /\ feature_settings = w.feature_settings
  /\ script = w.script
  /\ experiment_plan = w.experiment_plan
  /\ current_block_index = w.current_block_index
  /\ messages_in_current_block = w.messages_in_current_block
  /\ history = w.history
  /\ count = w.count
  /\ assistant_message_count = w.assistant_message_count
  /\ blocking = w.blocking
  /\ remaining = w.remaining
  /\ block_timer = w.block_timer
  /\ block_leaked = w.block_leaked
  /\ must_slow_turn = w.must_slow_turn
  /\ earliest_display_ts = w.earliest_display_ts
  /\ session_start_time = w.session_start_time
  /\ now = w.now
  /\ ab_test_threshold = w.ab_test_threshold
  /\ ab_responses = w.ab_responses
  /\ ab_responses_ready = w.ab_responses_ready
  /\ last_ab_choice = w.last_ab_choice
  /\ script_index = w.script_index
  /\ threads = w.threads
  /\ timers = w.timers
  /\ dialogs = w.dialogs
  /\ input_enabled = w.input_enabled
  /\ search_enabled = w.search_enabled
  /\ search_visible = w.search_visible
  /\ end_visible = w.end_visible
  /\ closed = w.closed
  /\ erase_timer = w.erase_timer
  /\ erase_leaked = w.erase_leaked
  /\ auto_end_timer = w.auto_end_timer
  /\ typebuf = w.typebuf
  /\ streaming_bubble = w.streaming_bubble
  /\ exports = w.exports
  /\ sub = w.sub
  /\ errors = w.errors
  /\ turn = w.turn
  /\ notices = w.notices
  /\ log_errors = w.log_errors
  /\ erase_count = w.erase_count
  /\ permanent_since = w.permanent_since
  /\ probe = w.probe

Init ==
  \E sc \in Scenarios :
    Starts(NewChatWindow(sc.flags, sc.settings, sc.script, sc.blueprint))

\* the user can act on the chat window: it is open and no modal dialog is up
UserCanAct == ~closed /\ dialogs = <<>>

\* Send or Return with a text typed
SendMessage ==
  /\ UserCanAct /\ input_enabled
  /\ sub < MaxSubs
  /\ Becomes(send_message(W))

\* Search Web with a text typed
SendWithWebSearch ==
  /\ UserCanAct /\ input_enabled /\ search_visible /\ search_enabled
  /\ sub < MaxSubs
  /\ Becomes(send_with_web_search(W))

\* a ChatThread emits result_ready and finishes
ThreadResult ==
  \E t \in threads :
    /\ ~closed
    /\ Becomes(on_result([W EXCEPT !.threads = @ \ {t}], t))

\* a ChatThread emits error and finishes
ThreadError ==
  \E t \in threads :
    /\ ~closed
    /\ errors < MaxErrors
    /\ Becomes(on_error([W EXCEPT !.threads = @ \ {t}, !.errors = @ + 1,
                                   !.turn = IF t.sub = @ THEN 0 ELSE @]))

\* the kinds of timer _maybe_delay_then starts
GateKinds == {"response", "ab", "ui_ab", "alt", "scripted_ab"}

\* a single-shot timer fires; a reveal-gate timer not before its time
TimerFire ==
  \E t \in timers :
    /\ ~closed
    /\ t.kind \in GateKinds => now >= t.ts
    /\ Becomes(on_timer([W EXCEPT !.timers = @ \ {t}], t))

\* a countdown timer's one-second tick
UpdateCountdown ==
  /\ ~closed
  /\ block_timer \/ block_leaked > 0
  /\ Becomes(update_countdown(W))

\* what the caller of exec() does when the innermost dialog returns
dialog_done(w, sel) ==
  LET d  == w.dialogs[Len(w.dialogs)]
      w1 == [w EXCEPT !.dialogs = SubSeq(@, 1, Len(@) - 1)]
  IN  CASE d.kind = "ab"      -> ab_dialog_done(w1, d, sel)
        [] d.kind = "ui"      -> ui_dialog_done(w1, d, sel)
        [] d.kind = "debrief" -> end_chat_close(w1, d.cont)
        [] OTHER              -> w1

\* the user answers or closes the innermost dialog
DialogDone ==
  \E sel \in {"A", "B", ""} :
    /\ ~closed /\ dialogs # <<>>
    /\ Becomes(dialog_done(W, sel))

\* End & Save
EndButton ==
  /\ UserCanAct /\ end_visible
  /\ Becomes(end_chat(W, "none"))

Next ==
  \/ SendMessage
  \/ SendWithWebSearch
  \/ ThreadResult
  \/ ThreadError
  \/ TimerFire
  \/ UpdateCountdown
  \/ DialogDone
  \/ EndButton

Spec == Init /\ [][Next]_vars

\* ------------------------------------------------------- sessions on the clock
\* the clock's last second
MaxTime == 4

\* a cyclic slow window: 2 s normal, 2 s slow, responses held 2 s; cooldowns and
\* web search as well
ScenarioSlowCyclic ==
  [ flags |-> {"SLOWDOWN", "WEB_SEARCH", "BLOCK_MSGS", "DELAY_BEFORE_SEND"},
    settings |-> Settings([slowdown_period_s |-> 2, slowdown_window_s |-> 2,
                           slowdown_min_delay_s |-> 2,
                           block_message_count |-> 2, block_duration_s |-> 1]),
    script |-> <<>>, blueprint |-> NoBlueprint ]

\* the permanent slowdown from second 2 on, no cyclic window, a comparison
\* trial on every 2nd turn
ScenarioSlowPermanent ==
  [ flags |-> {"SLOWDOWN", "AB_TESTING"},
    settings |-> Settings([slowdown_window_s |-> 0, slowdown_min_delay_s |-> 1,
                           slowdown_permanent_after_enabled |-> TRUE,
                           slowdown_permanent_after_s |-> 2,
                           ab_test_message_threshold |-> 2]),
    script |-> <<>>, blueprint |-> NoBlueprint ]

\* every turn slow, responses streamed
ScenarioSlowStreaming ==
  [ flags |-> {"SLOWDOWN", "STREAMING"},
    settings |-> Settings([slowdown_window_s |-> 0, slowdown_min_delay_s |-> 2,
                           slowdown_permanent_after_enabled |-> TRUE,
                           slowdown_permanent_after_s |-> 0]),
    script |-> <<>>, blueprint |-> NoBlueprint ]

\* every turn slow, a script of a normal and a comparison step, typewriter on
ScenarioSlowScript ==
  [ flags |-> {"SLOWDOWN", "SCRIPTED_RESPONSES", "TYPEWRITER"},
    settings |-> Settings([slowdown_window_s |-> 0, slowdown_min_delay_s |-> 2,
                           slowdown_permanent_after_enabled |-> TRUE,
                           slowdown_permanent_after_s |-> 0]),
    script |-> << [type |-> "normal", response |-> Txt(0, "step1")],
                  [type |-> "ab_test", response_a |-> Txt(0, "step2a"),
                                       response_b |-> Txt(0, "step2b")] >>,
    blueprint |-> NoBlueprint ]

\* a blueprint whose first block switches the permanent slowdown on from second
\* 0 and whose second block does not list the slowdown feature
ScenarioSlowBlueprint ==
  [ flags |-> {"DYNAMIC_FEATURE_CHANGING"},
    settings |-> Settings(<<>>),
    script |-> <<>>,
    blueprint |-> [status |-> "ok", plan |->
      << [name |-> "b0", duration_messages |-> 1,
          features |-> [SLOWDOWN |-> TRUE],
          settings |-> [slowdown_window_s |-> 0, slowdown_min_delay_s |-> 1,
                        slowdown_permanent_after_enabled |-> TRUE,
                        slowdown_permanent_after_s |-> 0]],
         [name |-> "b1", duration_messages |-> 2,
          features |-> [KIND_TONE |-> TRUE]] >>] ]

TimedScenarios ==
  { ScenarioSlowCyclic, ScenarioSlowPermanent, ScenarioSlowStreaming,
    ScenarioSlowScript, ScenarioSlowBlueprint }

InitTimed ==
  \E sc \in TimedScenarios :
    Starts(NewChatWindow(sc.flags, sc.settings, sc.script, sc.blueprint))

\* a second passes
Tick ==
  /\ ~closed
  /\ now < MaxTime
  /\ Becomes([W EXCEPT !.now = @ + 1])

\* _on_chunk_ready with a paragraph break in the buffer: the streamed text so
\* far is put on screen
on_chunk_ready(w) == [w EXCEPT !.streaming_bubble = TRUE]

\* the running request of a single dispatch streams a chunk
ChunkReady ==
  \E t \in threads :
    /\ ~closed
    /\ t.role = "single"
    /\ is_enabled(W, "STREAMING")
    /\ Becomes(on_chunk_ready(W))

NextTimed ==
  \/ Next
  \/ Tick
  \/ ChunkReady

SpecTimed == InitTimed /\ [][NextTimed]_vars

\* ------------------------------------------------------ sessions with cooldowns
\* a cooldown of 1 s after every 2nd committed turn; web search and a pre-send
\* delay as well
ScenarioBlockRepeat ==
  [ flags |-> {"BLOCK_MSGS", "WEB_SEARCH", "DELAY_BEFORE_SEND"},
    settings |-> Settings([block_message_count |-> 2, block_duration_s |-> 1,
                           block_repeat |-> TRUE]),
    script |-> <<>>, blueprint |-> NoBlueprint ]

\* a cooldown of 1 s after the 2nd committed turn only
ScenarioBlockOnce ==
  [ flags |-> {"BLOCK_MSGS", "WEB_SEARCH"},
    settings |-> Settings([block_message_count |-> 2, block_duration_s |-> 1,
                           block_repeat |-> FALSE]),
    script |-> <<>>, blueprint |-> NoBlueprint ]

\* a blueprint whose first block has a cooldown due after every turn and whose
\* second block has the message-count auto-end due at the 3rd turn
ScenarioBlueprintLimits ==
  [ flags |-> {"DYNAMIC_FEATURE_CHANGING"},
    settings |-> Settings(<<>>),
    script |-> <<>>,
    blueprint |-> [status |-> "ok", plan |->
      << [name |-> "b0", duration_messages |-> 2,
          features |-> [BLOCK_MSGS |-> TRUE],
          settings |-> [block_message_count |-> 1, block_duration_s |-> 1]],
         [name |-> "b1", duration_messages |-> 2,
          features |-> [AUTO_END_AFTER_N_MSGS |-> TRUE],
          settings |-> [auto_end_messages |-> 3]] >>] ]

\* a blueprint whose block sets the comparison-trial interval to 2; the control
\* panel left it at its default, 5
ScenarioBlueprintInterval ==
  [ flags |-> {"DYNAMIC_FEATURE_CHANGING"},
    settings |-> Settings(<<>>),
    script |-> <<>>,
    blueprint |-> [status |-> "ok", plan |->
      << [name |-> "b0", duration_messages |-> 3,
          features |-> [AB_TESTING |-> TRUE],
          settings |-> [ab_test_message_threshold |-> 2]] >>] ]

BlockScenarios ==
  { ScenarioBlockRepeat, ScenarioBlockOnce, ScenarioBlueprintLimits,
    ScenarioBlueprintInterval }

InitBlock ==
  \E sc \in BlockScenarios :
    Starts(NewChatWindow(sc.flags, sc.settings, sc.script, sc.blueprint))

SpecBlock == InitBlock /\ [][Next]_vars

\* ------------------------------------- sessions with session timers, to the end
\* the most erasures of the history in a session
MaxErase == 2

\* the history erased once; cooldowns and web search as well
ScenarioEraseOnce ==
  [ flags |-> {"ERASE_HISTORY", "WEB_SEARCH", "BLOCK_MSGS"},
    settings |-> Settings([erase_history_repeat |-> FALSE,
                           block_message_count |-> 2, block_duration_s |-> 1]),
    script |-> <<>>, blueprint |-> NoBlueprint ]

\* the history erased again and again
ScenarioEraseRepeat ==
  [ flags |-> {"ERASE_HISTORY"},
    settings |-> Settings([erase_history_repeat |-> TRUE]),
    script |-> <<>>, blueprint |-> NoBlueprint ]

\* the elapsed-time auto-end, a same-text comparison on every turn
ScenarioTimeLimit ==
  [ flags |-> {"AUTO_END_AFTER_T_MIN", "AB_TESTING", "AB_UI_TEST"},
    settings |-> Settings([ab_test_message_threshold |-> 1]),
    script |-> <<>>, blueprint |-> NoBlueprint ]

\* a blueprint of one block of one turn; the history erasure is on at the start
\* and in the block
ScenarioBlueprintOne ==
  [ flags |-> {"DYNAMIC_FEATURE_CHANGING", "ERASE_HISTORY"},
    settings |-> Settings(<<>>),
    script |-> <<>>,
    blueprint |-> [status |-> "ok", plan |->
      << [name |-> "b0", duration_messages |-> 1,
          features |-> [ERASE_HISTORY |-> TRUE]] >>] ]

\* a blueprint whose first block erases the history and whose second does not
ScenarioBlueprintErase ==
  [ flags |-> {"DYNAMIC_FEATURE_CHANGING"},
    settings |-> Settings(<<>>),
    script |-> <<>>,
    blueprint |-> [status |-> "ok", plan |->
      << [name |-> "b0", duration_messages |-> 1,
          features |-> [ERASE_HISTORY |-> TRUE]],
         [name |-> "b1", duration_messages |-> 2,
          features |-> [KIND_TONE |-> TRUE]] >>] ]

SessionScenarios ==
  { ScenarioEraseOnce, ScenarioEraseRepeat, ScenarioTimeLimit, ScenarioBlueprintOne,
    ScenarioBlueprintErase }

InitSession ==
  \E sc \in SessionScenarios :
    Starts(NewChatWindow(sc.flags, sc.settings, sc.script, sc.blueprint))

\* the elapsed-time trigger: the one-shot timer of _setup_auto_end_timer fires
AutoEndTimeout ==
  /\ ~closed
  /\ auto_end_timer
  /\ Becomes(auto_end_chat([W EXCEPT !.auto_end_timer = FALSE]))

\* an erase timer fires: the one in self.erase_timer, or an older one that is
\* still running
EraseTimeout ==
  \E referenced \in BOOLEAN :
    /\ ~closed
    /\ erase_count < MaxErase
    /\ IF referenced THEN erase_timer ELSE erase_leaked > 0
    /\ Becomes(handle_erase_timeout(
                 IF referenced THEN [W EXCEPT !.erase_timer = FALSE]
                               ELSE [W EXCEPT !.erase_leaked = @ - 1]))

\* the window has closed under a dialog that was open beneath the debrief: its
\* exec() returns without a choice and its caller goes on
DialogUnwinds ==
  /\ closed /\ dialogs # <<>>
  /\ Becomes(dialog_done(W, ""))

NextSession ==
  \/ Next
  \/ AutoEndTimeout
  \/ EraseTimeout
  \/ DialogUnwinds

SpecSession == InitSession /\ [][NextSession]_vars

\* ------------------------------------------------ get_setting_value on its own
\* a settings table with values that differ from the defaults of feature_settings
ProbeTable ==
  [ delay_seconds |-> 7, delay_seconds_b |-> 8,
    block_duration_s |-> 9, block_duration_s_b |-> 11 ]

\* the tables that hold any part of ProbeTable
SettingsTables ==
  { [k \in keys |-> ProbeTable[k]] : keys \in SUBSET DOMAIN ProbeTable }

\* the keys resolved: two the program reads, one no table or default knows
ProbeKeys == {"delay_seconds", "block_duration_s", "no_such_setting"}

InitSettings ==
  \E S \in SettingsTables : Starts(NewChatWindow({}, S, <<>>, NoBlueprint))

\* one call get_setting_value(setting_key, is_option_b)
ResolveSetting ==
  \E setting_key \in ProbeKeys, is_option_b \in BOOLEAN :
    /\ probe = NoProbe
    /\ Becomes([W EXCEPT !.probe =
          [fn |-> "get_setting_value",
           args |-> [setting_key |-> setting_key, is_option_b |-> is_option_b],
           value |-> get_setting_value(W, setting_key, is_option_b)]])

NextSettings == ResolveSetting

SpecSettings == InitSettings /\ [][NextSettings]_vars

\* --------------------------------------------------- _in_slow_window on its own
\* the configured (period, window) pairs: small ones around the floors, and the
\* defaults of feature_settings
WindowConfigs ==
  ({-1, 0, 1, 2, 3} \X {-1, 0, 1, 2}) \cup {<<100, 20>>}

\* the session's start on the clock
StartTimes == {0, 3}

\* the elapsed session times the check is asked about
ElapsedTimes == 0..12 \cup {90, 110, 219, 220}

InitWindow ==
  \E c \in WindowConfigs, st \in StartTimes :
    Starts([NewChatWindow({"SLOWDOWN"},
                          Settings([slowdown_period_s |-> c[1], slowdown_window_s |-> c[2]]),
                          <<>>, NoBlueprint)
              EXCEPT !.session_start_time = st, !.now = st])

\* one call _in_slow_window(send_ts)
CheckWindow ==
  \E e \in ElapsedTimes :
    /\ probe = NoProbe
    /\ Becomes([W EXCEPT !.probe =
          [fn |-> "in_slow_window",
           args |-> [elapsed |-> e],
           value |-> in_slow_window(W, session_start_time + e)]])

NextWindow == CheckWindow

SpecWindow == InitWindow /\ [][NextWindow]_vars

\* ================================================================= claims
\* the innermost dialog, when one is open
Top(ds) == ds[Len(ds)]

\* this step opens a comparison (an ABTestingDialog from _show_ab_dialog)
OpensComparison == Len(dialogs') = Len(dialogs) + 1 /\ Top(dialogs').kind = "ab"

\* this step hands the content trial's comparison to the reveal gate: the gate
\* presents it at once or starts its timer
RevealsTrial ==
  \/ OpensComparison /\ Top(dialogs').a.src = "A"
  \/ \E t \in timers' \ timers : t.kind = "ab"

\* the live content trial of the current submission, no request having failed
CleanTrial == errors = 0 /\ ab_responses.live

\* C1, part 1: in a content trial whose requests have not failed, after exactly
\* one side has completed no comparison is presented, exactly one text is
\* stored and the other side's request is still running (the trial is pending).
C1_PendingAfterOne ==
  (CleanTrial /\ ab_responses_ready = 1) =>
     /\ \A i \in 1..Len(dialogs) : dialogs[i].kind # "ab"
     /\ \A t \in timers : t.kind # "ab"
     /\ (ab_responses.A = NoText) # (ab_responses.B = NoText)
     /\ \E t \in threads :
          /\ t.sub = sub /\ t.role \in {"A", "B"}
          /\ ab_responses[t.role] = NoText

\* C1, part 2: the completion of the second side, in either order, invokes the
\* reveal with both sides' texts stored, and no other step invokes it: the
\* reveal happens exactly once per trial.
C1_RevealAtSecond ==
  (errors' = 0) =>
     /\ (ab_responses.live /\ ab_responses_ready = 1 /\ ab_responses_ready' = 2) =>
          /\ RevealsTrial
          /\ Top(dialogs') = Dialog("ab", Txt(sub, "A"), Txt(sub, "B"), "none")
          /\ ab_responses'.A = Txt(sub, "A") /\ ab_responses'.B = Txt(sub, "B")
     /\ RevealsTrial =>
          /\ ab_responses.live /\ ab_responses_ready = 1 /\ ab_responses_ready' = 2

\* C1: a paired trial whose two requests succeed reveals exactly once, after
\* both texts are stored; after one completion the trial is still pending.
C1_RevealOnceAfterBoth == [](C1_PendingAfterOne) /\ [][C1_RevealAtSecond]_vars

\* C1 witness: both requests of a trial have succeeded and its comparison is open
C1_Witness ==
  /\ errors = 0 /\ ab_responses.live /\ ab_responses_ready = 2
  /\ dialogs = <<Dialog("ab", Txt(sub, "A"), Txt(sub, "B"), "none")>>

\* C2: a comparison of a content trial is presented only with the texts of the
\* two requests of the current trial.
C2_ComparisonFromCurrentTrial ==
  \A i \in 1..Len(dialogs) :
    (dialogs[i].kind = "ab" /\ dialogs[i].a.src = "A") =>
       /\ dialogs[i].b.src = "B"
       /\ dialogs[i].a.sub = dialogs[i].b.sub

\* C3: while a turn is in progress (accepted, not committed, no error notice for
\* it, session not ended) the input controls are disabled.
C3_InputDisabledDuringTurn == (turn # 0 /\ ~closed) => ~input_enabled

\* C4: while a cooldown is active the input controls are disabled.
C4_InputDisabledDuringCooldown == (blocking /\ ~closed) => ~input_enabled

\* C5: at most two generation requests are outstanding.
C5_AtMostTwoOutstanding == Cardinality(threads) <= 2

\* this step runs the dispatch of an accepted submission (_send_after_delay or
\* _web_search_after_delay), at once or when its pre-send delay fires
Dispatches ==
  \/ sub' = sub + 1 /\ ~enabled_features["DELAY_BEFORE_SEND"]
  \/ \E t \in timers \ timers' : t.kind \in {"delay", "delay_web"}

\* a scripted step is pending for the next dispatch
StepPending == enabled_features["SCRIPTED_RESPONSES"] /\ script_index < Len(script)

\* the generation requests this step starts
Started == threads' \ threads

\* C6: with content comparison trials enabled and no scripted step pending, the
\* turn of index count + 1 is dispatched as a pair of requests A and B exactly
\* when the index is a multiple of the trial interval, as one request otherwise.
C6_PairedIffMultiple ==
  [][ ( /\ Dispatches
        /\ enabled_features["AB_TESTING"]
        /\ ~enabled_features["AB_UI_TEST"] /\ ~enabled_features["AB_UI_ALT"]
        /\ ~StepPending )
      => IF (count + 1) % ab_test_threshold = 0
           THEN {t.role : t \in Started} = {"A", "B"}
           ELSE Cardinality(Started) = 1 ]_vars

\* one step of the script cursor
C7_CursorStep ==
  /\ script_index' \in {script_index, script_index + 1}
  /\ script_index' # script_index => Dispatches
  /\ (Dispatches /\ script_index = Len(script)) =>
        /\ script_index' = script_index
        /\ Started # {}
        /\ \A t \in timers' \ timers : t.kind # "script"
        /\ dialogs' = dialogs

\* C7: the script cursor never decreases, advances by at most one and only in
\* the dispatch of an accepted submission, never exceeds the script length, and
\* once it equals the length every later dispatch is live.
C7_CursorMonotoneBounded ==
  [](script_index <= Len(script) /\ script_index <= sub) /\ [][C7_CursorStep]_vars

\* C7 witness: the script is exhausted and a later turn has been dispatched live
C7_Witness ==
  /\ script # <<>> /\ script_index = Len(script)
  /\ \E t \in threads : t.sub > Len(script)

\* C8: while a scripted step is pending, the dispatch of an accepted submission
\* consumes that step and starts no generation request.
C8_ScriptBeforeLive ==
  [][ (Dispatches /\ StepPending) =>
        /\ Started = {}
        /\ script_index' = script_index + 1 ]_vars

\* the flags a blueprint block prescribes: its override, false without one
Overrides(block) ==
  LET features == Get(block, "features", <<>>)
  IN  [flag \in FeatureFlag |-> IF flag \in DOMAIN features THEN features[flag] ELSE FALSE]

\* this step activates a block of the blueprint
Activates ==
  /\ current_block_index' # current_block_index
  /\ current_block_index' < Len(experiment_plan)

\* C9: right after block i is activated, at session start for block 0 and at a
\* block boundary for the others, every flag equals block i's override, or
\* false when the block has none.
C9_FlagsAreBlockOverrides ==
  /\ (experiment_plan # <<>> => enabled_features = Overrides(experiment_plan[1]))
  /\ [][Activates => enabled_features' = Overrides(experiment_plan[current_block_index' + 1])]_vars

\* C9 witness: block 1 is active and flags that were on in block 0, one by its
\* override and one from before the blueprint, read false
C9_Witness ==
  /\ Len(experiment_plan) = 2 /\ current_block_index = 1
  /\ Get(Get(experiment_plan[1], "features", <<>>), "KIND_TONE", FALSE)
  /\ ~enabled_features["KIND_TONE"] /\ ~enabled_features["AB_TESTING"]
  /\ enabled_features["RUDE_TONE"]

RECURSIVE SumDurations(_, _)
\* d0 + ... + d(k-1) of a blueprint
SumDurations(plan, k) ==
  IF k = 0 THEN 0 ELSE plan[k].duration_messages + SumDurations(plan, k - 1)

\* C10: block 0 is active from the start; block i is active exactly while the
\* number of committed turns is at least d0+...+d(i-1) and less than
\* d0+...+di, its counter holding the turns committed in it; once the commits
\* reach the sum of all durations the index is out of range and the session's
\* termination has been triggered.
C10_BlockBoundaries ==
  experiment_plan # <<>> =>
    LET n == Len(experiment_plan)
        i == current_block_index
    IN  /\ i \in 0..n
        /\ i < n =>
             /\ count = SumDurations(experiment_plan, i) + messages_in_current_block
             /\ messages_in_current_block \in 0..(experiment_plan[i + 1].duration_messages - 1)
        /\ i = n =>
             /\ count >= SumDurations(experiment_plan, n)
             /\ exports >= 1
             /\ closed \/ \E k \in 1..Len(dialogs) : dialogs[k].kind = "debrief"

\* C10 witness: durations 2 and 3, five turns committed, the runner Complete
C10_Witness ==
  /\ Len(experiment_plan) = 2
  /\ experiment_plan[1].duration_messages = 2 /\ experiment_plan[2].duration_messages = 3
  /\ current_block_index = 2 /\ count = 5 /\ exports = 1

\* the blueprint could not be loaded: the log says so
BlueprintFailed == log_errors \cap {"blueprint_missing", "blueprint_unparseable"} # {}

\* C11: when the blueprint file is missing or cannot be parsed, no block is
\* active, the flags are those set before the session, turn commits take the
\* non-blueprint path, and the user has been shown a failure notice.
C11_BlueprintFailureDegrades ==
  BlueprintFailed =>
    /\ experiment_plan = <<>> /\ current_block_index = -1
    /\ messages_in_current_block = 0
    /\ enabled_features = FlagsOn({"DYNAMIC_FEATURE_CHANGING", "KIND_TONE"})
    /\ feature_settings = DefaultSettings
    /\ "blueprint_missing" \in notices

\* a call of get_setting_value has been made
Resolved == probe.fn = "get_setting_value"

\* C12 as amended: the primary resolution of K is S[K] when S has K and none
\* otherwise (the caller substitutes the default); the alternate resolution is
\* S[K_b] when S has K_b and the primary resolution otherwise; an unknown key
\* resolves to none without raising.
C12_ResolutionValue ==
  Resolved =>
    LET S == feature_settings
        K == probe.args.setting_key
        primary == IF K \in DOMAIN S THEN <<S[K]>> ELSE <<>>
    IN  IF probe.args.is_option_b /\ (K \o "_b") \in DOMAIN S
          THEN probe.value = <<S[K \o "_b"]>>
          ELSE probe.value = primary

WindowChecked == probe.fn = "in_slow_window"

\* C13: with the slowdown feature enabled, period P floored at 1 and window W
\* floored at 0, a turn sent at elapsed time e is in the cyclic slow window
\* exactly when W > 0 and e mod (P + W) >= P; with W = 0 it never is.
C13_CyclicWindow ==
  WindowChecked =>
    LET P  == Max(1, feature_settings.slowdown_period_s)
        Wd == Max(0, feature_settings.slowdown_window_s)
        e  == probe.args.elapsed
    IN  /\ probe.value = (Wd > 0 /\ (e % (P + Wd)) >= P)
        /\ Wd = 0 => probe.value = FALSE

\* C13 witness: a configured period of 0 counts as 1, a window of 1 makes the
\* cycle 2 seconds: elapsed 3 is in the slow window
C13_Witness ==
  /\ WindowChecked /\ probe.value = TRUE
  /\ feature_settings.slowdown_period_s = 0 /\ feature_settings.slowdown_window_s = 1
  /\ probe.args.elapsed = 3

\* period 100 and window 20 are configured and elapsed time e was asked about
Asked(e) ==
  /\ WindowChecked /\ probe.args.elapsed = e
  /\ feature_settings.slowdown_period_s = 100 /\ feature_settings.slowdown_window_s = 20

\* C14 as amended: with period 100 and window 20, elapsed 110 is in the slow
\* window and 90 is not; 219 (99 s into the second cycle of 120 s) is not, and
\* 220 (100 s into it) is.
C14_WindowExamples ==
  /\ Asked(110) => probe.value = TRUE
  /\ Asked(90)  => probe.value = FALSE
  /\ Asked(219) => probe.value = FALSE
  /\ Asked(220) => probe.value = TRUE

\* C14 witness: elapsed 220 was asked about and is in the slow window
C14_Witness == Asked(220) /\ probe.value = TRUE

\* C14 as stated: 110 in the slow window, 90 not, 219 in it, 220 not.
C14_WindowExamplesAsStated ==
  /\ Asked(110) => probe.value = TRUE
  /\ Asked(90)  => probe.value = FALSE
  /\ Asked(219) => probe.value = TRUE
  /\ Asked(220) => probe.value = FALSE

\* ------------------------------------------------------------------ C15..C19
\* the timestamp this step's dispatch hands to _prepare_turn_slowdown: the
\* current time, or the submission time carried by the pre-send timer
SendTs ==
  IF \E t \in timers \ timers' : t.kind \in {"delay", "delay_web"}
    THEN (CHOOSE t \in timers \ timers' : t.kind \in {"delay", "delay_web"}).ts
    ELSE now

\* the configured value of a setting, or its default
Configured(key, default) ==
  IF key \in DOMAIN feature_settings THEN feature_settings[key] ELSE default

\* the cyclic mechanism fires at elapsed time e
CyclicFires(e) ==
  LET P  == Max(1, Configured("slowdown_period_s", 100))
      Wn == Max(0, Configured("slowdown_window_s", 20))
  IN  Wn > 0 /\ (e % (P + Wn)) >= P

\* the permanent mechanism fires at elapsed time e
PermanentFires(e) ==
  /\ Configured("slowdown_permanent_after_enabled", FALSE)
  /\ e >= Configured("slowdown_permanent_after_s", 600)

\* C15: the dispatch of a turn sets mustDelayTurn to true exactly when the
\* slowdown feature is enabled and the cyclic window or the permanent slowdown
\* fires at the send time, and then sets earliestRevealTimestamp to the send
\* time plus the configured minimum delay.
C15_TimingSnapshot ==
  [][Dispatches =>
       LET e == SendTs - session_start_time
       IN  /\ must_slow_turn' = (/\ enabled_features["SLOWDOWN"]
                                  /\ (CyclicFires(e) \/ PermanentFires(e)))
           /\ must_slow_turn' =>
                 earliest_display_ts' = <<SendTs + Configured("slowdown_min_delay_s", 4)>>]_vars

\* a turn was just sent in a slow period: its reveal time is the minimum delay
\* away
C15_Witness ==
  /\ turn # 0
  /\ now > 0
  /\ must_slow_turn
  /\ earliest_display_ts = <<now + Configured("slowdown_min_delay_s", 4)>>

\* C16: in every reachable state, when mustDelayTurn is false
\* earliestRevealTimestamp is absent.
C16_NoTimestampWithoutDelay == ~must_slow_turn => earliest_display_ts = <<>>

\* a slow turn was committed outside a blueprint and its timing decision reset
C16_Witness ==
  /\ experiment_plan = <<>>
  /\ permanent_since
  /\ assistant_message_count > 0
  /\ turn = 0
  /\ ~must_slow_turn
  /\ earliest_display_ts = <<>>

\* C17: once a turn was sent with the permanent-slowdown toggle set at an
\* elapsed time at or past the threshold, every later turn that is sent has
\* mustDelayTurn true.
C17_PermanentStaysSlow == [][Dispatches /\ permanent_since => must_slow_turn']_vars

\* this step delivers the result of request t to _on_response, which hands the
\* display of the reply to the reveal gate
GateCall(t) ==
  /\ t \in threads \ threads'
  /\ t.role \in {"single", "web"}
  /\ errors' = errors

\* a delay decision is pending and its reveal time has not come
RevealPending ==
  must_slow_turn /\ earliest_display_ts # <<>> /\ now < earliest_display_ts[1]

\* this step ran the display of reply: the turn is committed or the typewriter
\* started on the reply
Ran(reply) ==
  \/ assistant_message_count' = assistant_message_count + 1
  \/ typebuf' = reply /\ \E u \in timers' : u.kind = "type"

\* C18: a call of the reveal gate runs its action in the same step when no
\* delay decision is pending or the reveal time has passed; otherwise it only
\* schedules the action for the earliest reveal time, and the scheduled action
\* runs when its timer fires, never before that time; the call takes no time.
C18_RevealGate ==
  [][/\ \A t \in threads : GateCall(t) =>
          LET reply == Txt(t.sub, t.role)
          IN  /\ now' = now
              /\ IF RevealPending
                    THEN /\ \E u \in timers' \ timers :
                              /\ u.kind = "response"
                              /\ u.a = reply
                              /\ u.ts = earliest_display_ts[1]
                         /\ assistant_message_count' = assistant_message_count
                         /\ typebuf' = typebuf
                    ELSE /\ \A u \in timers' \ timers : u.kind \notin GateKinds
                         /\ Ran(reply)
     /\ \A u \in timers \ timers' : u.kind \in GateKinds =>
          /\ now >= u.ts
          /\ u.kind = "response" => Ran(u.a)
     /\ \A u \in timers' \ timers : u.kind \in GateKinds =>
          /\ now < u.ts
          /\ must_slow_turn'
          /\ earliest_display_ts' = <<u.ts>>]_vars

\* a reply waits on the gate's timer while its reveal time has not come
C18_Witness ==
  /\ RevealPending
  /\ \E u \in timers : u.kind = "response" /\ u.ts = earliest_display_ts[1]

\* some of a response is on screen and its turn is not committed: streamed
\* text, text being typed, or an open comparison of responses
ResponseShowing ==
  \/ streaming_bubble
  \/ \E u \in timers : u.kind = "type"
  \/ \E i \in 1..Len(dialogs) : dialogs[i].kind \in {"ab", "ui"}

\* C19: while a sent turn's delay decision is pending and its earliest reveal
\* time has not come, nothing of a response is on screen, whatever the dispatch
\* mode and the presentation mode.
C19_NothingBeforeReveal == turn # 0 /\ RevealPending => ~ResponseShowing

\* ------------------------------------------------------------------------ C20
\* the message-count auto-end is on, with its maximum, and no blueprint is loaded
AutoEndOn ==
  enabled_features["AUTO_END_AFTER_N_MSGS"] /\ experiment_plan = <<>>

MaxMessages == Configured("auto_end_messages", 10)

\* the commit that brings the assistant-turn count to the maximum announces
\* termination, schedules the close and leaves the input disabled
C20_CommitAtMaximumEnds ==
  [][AutoEndOn /\ assistant_message_count' = MaxMessages
               /\ assistant_message_count = MaxMessages - 1
       => /\ "auto_end" \in notices'
          /\ \E u \in timers' : u.kind = "end"
          /\ ~input_enabled' /\ ~search_enabled']_vars

\* C20: with the message-count auto-end on and no blueprint loaded, no turn
\* beyond the maximum is ever committed: the assistant-turn count never passes
\* the maximum.
C20_NoTurnBeyondMaximum == AutoEndOn => assistant_message_count <= MaxMessages

\* ------------------------------------------------------------------------ C21
\* this step starts a cooldown: the countdown timer starts, or starts again
CooldownStarts ==
  \/ ~block_timer /\ block_timer'
  \/ block_leaked' > block_leaked

\* the message-count auto-end fires on the commit of this step
AutoEndFires ==
  /\ enabled_features["AUTO_END_AFTER_N_MSGS"]
  /\ assistant_message_count' >= Configured("auto_end_messages", 10)

\* C21: with message-count blocking on with threshold N, no blueprint loaded
\* and the auto-end not firing, the commit of turn k starts a cooldown exactly
\* when k is a positive multiple of N (repeat toggle on) or k = N (toggle off).
C21_CooldownTurns ==
  [][/\ count' = count + 1
     /\ enabled_features["BLOCK_MSGS"]
     /\ experiment_plan = <<>>
     /\ ~AutoEndFires
     => LET N == Configured("block_message_count", 5)
            k == count'
        IN  CooldownStarts <=>
              IF Configured("block_repeat", TRUE) THEN k > 0 /\ k % N = 0
                                                  ELSE k = N]_vars

\* with the repeat toggle on, the second cooldown runs after turn 2N
C21_Witness ==
  /\ enabled_features["BLOCK_MSGS"]
  /\ Configured("block_repeat", TRUE)
  /\ count = 2 * Configured("block_message_count", 5)
  /\ blocking /\ block_timer /\ ~input_enabled

\* ------------------------------------------------------------------------ C22
\* a comparison of responses is the innermost open dialog
ComparisonOpen ==
  ~closed /\ dialogs # <<>> /\ Top(dialogs).kind \in {"ab", "ui"}

\* the text a comparison yields for the answer sel: the chosen side's, the
\* primary side's when it is dismissed
Outcome(d, sel) == IF sel = "B" THEN d.b ELSE d.a

\* in w the turn after the current one is committed with text, and the trial
\* is discarded
CommittedWith(w, text) ==
  /\ w.count = count + 1
  /\ w.assistant_message_count = assistant_message_count + 1
  /\ Len(w.history) = Len(history) + 1
  /\ w.history[Len(w.history)] = Entry("assistant", text)
  /\ w.ab_responses = NoResponses
  /\ w.last_ab_choice = ""

\* in w the typewriter is showing text, which its last step commits
TypingOf(w, text) ==
  /\ w.count = count
  /\ w.typebuf = text
  /\ \E u \in w.timers : u.kind = "type"

C23_FailureLeavesTurnUncommitted ==
  [][errors' = errors + 1 =>
       /\ "error" \in notices'
       /\ input_enabled' /\ search_enabled'
       /\ threads' \subseteq threads
       /\ timers' = timers
       /\ count' = count
       /\ assistant_message_count' = assistant_message_count
       /\ script_index' = script_index
       /\ current_block_index' = current_block_index
       /\ messages_in_current_block' = messages_in_current_block
       /\ history' = history]_vars

\* the first request of the session failed: the user's entry is the whole
\* history and the input is enabled again
C23_Witness ==
  /\ errors = 1 /\ threads = {}
  /\ "error" \in notices
  /\ input_enabled
  /\ count = 0 /\ Len(history) = 1 /\ history[1].role = "user"

\* ------------------------------------------------------------------------ C24
\* C24: once the session has ended (the window has closed), nothing changes
\* the session's state any more: the history and the counters stay as they
\* are, the input is not re-enabled and the session is not terminated again.
C24_NothingAfterEnd ==
  [][closed' =>
       /\ history' = history
       /\ count' = count
       /\ assistant_message_count' = assistant_message_count
       /\ input_enabled' => input_enabled
       /\ exports' = exports]_vars

\* ------------------------------------------------------------------------ C25
\* the erase timers that are armed
ArmedEraseTimers == (IF erase_timer THEN 1 ELSE 0) + erase_leaked

AltRoles == {"alt_base", "alt_rephrase"}

\* this step dispatches a turn in sequential-alternate mode
AltDispatch ==
  /\ Dispatches
  /\ \E t \in Started : t.role = "alt_base"

\* request t ends in this step with a result
Succeeds(t) == t \in threads \ threads' /\ errors' = errors

\* C26: in sequential-alternate mode a dispatch issues the primary request
\* alone; the rewrite request is issued only in the step in which the primary
\* request of the same trial succeeds, and carries its output; a trial never
\* has two requests outstanding; the comparison is presented or scheduled only
\* when the rewrite request has succeeded, with the primary text and the
\* rewrite.
C26_SequentialAlternate ==
  [][/\ AltDispatch => Started = {Thread("alt_base", sub', NoText)}
     /\ \A t \in Started : t.role = "alt_rephrase" =>
          /\ t.base = Txt(t.sub, "alt_base")
          /\ Succeeds(Thread("alt_base", t.sub, NoText))
     /\ \A t \in threads', u \in threads' :
          t.role \in AltRoles /\ u.role \in AltRoles /\ t.sub = u.sub => t = u
     /\ \A u \in timers' \ timers : u.kind = "alt" =>
          /\ Succeeds(Thread("alt_rephrase", u.b.sub, u.a))
          /\ u.a = Txt(u.b.sub, "alt_base") /\ u.b = Txt(u.b.sub, "alt_rephrase")
     /\ Len(dialogs') > Len(dialogs) /\ Top(dialogs').kind = "ab"
          /\ Top(dialogs').b.src = "alt_rephrase" =>
          LET d == Top(dialogs')
          IN  /\ d.a = Txt(d.b.sub, "alt_base")
              /\ \/ Succeeds(Thread("alt_rephrase", d.b.sub, d.a))
                 \/ \E u \in timers \ timers' : u.kind = "alt" /\ u.a = d.a /\ u.b = d.b]_vars

\* the comparison of a primary text and its rewrite is open and no request is
\* outstanding
C26_Witness ==
  /\ dialogs # <<>>
  /\ Top(dialogs).kind = "ab"
  /\ Top(dialogs).a.src = "alt_base" /\ Top(dialogs).b.src = "alt_rephrase"
  /\ Top(dialogs).a.sub = Top(dialogs).b.sub
  /\ threads = {}

\* ------------------------------------------------------------------------ C27
\* nothing is pending that could still act on the window: no request, no
\* timer, no dialog
Quiescent ==
  /\ ~closed
  /\ threads = {} /\ timers = {} /\ dialogs = <<>>
  /\ ~block_timer /\ block_leaked = 0
  /\ ~auto_end_timer /\ ~erase_timer /\ erase_leaked = 0

\* C27: in a scripted session without a failed request, whatever the script's
\* entries, the session is never left with the input disabled and nothing
\* pending that would enable it again.
C27_ScriptNeverStrands ==
  enabled_features["SCRIPTED_RESPONSES"] /\ errors = 0 /\ Quiescent => input_enabled

\* ------------------------------------- the alternate feature set on its own
\* the settings keys of the alternate side
AlternateKeys ==
  { content_feature_mappings[i][1] : i \in DOMAIN content_feature_mappings } \cup
  { ui_feature_mappings[i][1] : i \in DOMAIN ui_feature_mappings }

\* every combination of the alternate-side checkboxes: a key that is absent
\* reads as its default, False
AlternateTables ==
  { [k \in AlternateKeys |-> k \in on] : on \in SUBSET AlternateKeys }

InitAlternate ==
  \E S \in AlternateTables :
    Starts(NewChatWindow({"AB_TESTING"}, S, <<>>, NoBlueprint))

\* the construction of step 5a for the settings in force
BuildOptionB ==
  /\ probe = NoProbe
  /\ Becomes([W EXCEPT !.probe =
        [fn |-> "option_b_features",
         args |-> [settings |-> feature_settings],
         value |-> option_b_features(feature_settings)]])

NextAlternate == BuildOptionB

SpecAlternate == InitAlternate /\ [][NextAlternate]_vars

\* ------------------------------------------------------------------- C28
Built == probe.fn = "option_b_features"

\* the setting of the alternate side that switches flag on is checked
Checked(key) == Get(feature_settings, key, FALSE)

\* C28: for every combination of alternate-side settings the alternate
\* FeatureSet has a value for every flag, never has rude tone together with
\* kind tone, never has mirror together with anti-mirror, and has at most one
\* of the three feedback styles
C28_AlternateSetWellFormed ==
  Built =>
    LET B == probe.value
    IN  /\ DOMAIN B = FeatureFlag
        /\ \A f \in FeatureFlag : B[f] \in BOOLEAN
        /\ ~(B["RUDE_TONE"] /\ B["KIND_TONE"])
        /\ ~(B["MIRROR"] /\ B["ANTI_MIRROR"])
        /\ Cardinality({f \in {"POSITIVE_FEEDBACK", "CRITICAL_FEEDBACK",
                               "NEUTRAL_FEEDBACK"} : B[f]}) <= 1

\* every conflicting checkbox is ticked and the set built keeps one of each group
C28_Witness ==
  /\ Built
  /\ Checked("ab_rude_tone_b") /\ Checked("ab_kind_tone_b")
  /\ Checked("ab_mirror_b") /\ Checked("ab_anti_mirror_b")
  /\ Checked("ab_positive_feedback_b") /\ Checked("ab_critical_feedback_b")
  /\ Checked("ab_neutral_feedback_b")
  /\ probe.value["KIND_TONE"] /\ ~probe.value["RUDE_TONE"]
  /\ probe.value["ANTI_MIRROR"] /\ ~probe.value["MIRROR"]
  /\ probe.value["NEUTRAL_FEEDBACK"] /\ ~probe.value["POSITIVE_FEEDBACK"]
  /\ ~probe.value["CRITICAL_FEEDBACK"]

\* ------------------------------------------------------------------- C29
\* this step commits a turn
CommitsTurn == count' = count + 1

\* C29: a turn's dispatch, in every mode, and a commit that activates no block
\* leave the live FeatureSet as it was; under a blueprint the live FeatureSet
\* changes only in a step that activates a block.
C29_LiveSetFrame ==
  [][ /\ Dispatches => enabled_features' = enabled_features
      /\ (CommitsTurn /\ ~Activates) => enabled_features' = enabled_features
      /\ (experiment_plan # <<>> /\ enabled_features' # enabled_features) => Activates ]_vars

\* a paired trial is out with the kind tone ticked for its alternate side only:
\* the live set still has it off
C29_Witness ==
  /\ \E t \in threads : t.role = "B"
  /\ Get(feature_settings, "ab_kind_tone_b", FALSE)
  /\ ~enabled_features["KIND_TONE"]
  /\ enabled_features["AB_TESTING"]

\* ------------------------------------------------------------------- C30
\* the pre-send timers whose callback this step runs
PreSendFired == {t \in timers \ timers' : t.kind \in {"delay", "delay_web"}}

\* the fixed pre-send delay d
PreSendDelay == Configured("delay_seconds", 2)

\* C30: when the pre-send delay d applies to a turn, the dispatch that runs d
\* after the submission evaluates the slow-window and permanent-slowdown checks
\* at submission time + d, and sets earliestRevealTimestamp to that time plus
\* the minimum delay.
C30_ChecksAtShiftedSendTime ==
  [][\A t \in PreSendFired :
       (enabled_features["SLOWDOWN"] /\ now = t.ts + PreSendDelay) =>
         LET shifted == t.ts + PreSendDelay
             e == shifted - session_start_time
         IN  /\ must_slow_turn' = (CyclicFires(e) \/ PermanentFires(e))
             /\ must_slow_turn' =>
                  earliest_display_ts' = <<shifted + Configured("slowdown_min_delay_s", 4)>>]_vars

\* ------------------------------------------------------------------- C31
\* C31: the timing decision is consumed once: after a turn's commit, in
\* standard, scripted and blueprint mode alike, mustDelayTurn is false.
C31_DecisionConsumedAtCommit ==
  [][CommitsTurn => ~must_slow_turn']_vars

\* ------------------------------------------------------------------- C32
\* this step schedules the session's automatic end
AutoEndScheduled == \E t \in timers' \ timers : t.kind = "end"

\* C32: while a blueprint is active the auto-end and blocking checks run after
\* every committed turn: a commit inside a block whose flags enable the
\* message-count auto-end or the message-count blocking, and that meets the
\* condition, schedules the auto-end or starts the cooldown as it would without
\* a blueprint.
C32_ChecksUnderBlueprint ==
  [][(/\ CommitsTurn
      /\ experiment_plan # <<>>
      /\ current_block_index' = current_block_index)
     => /\ AutoEndFires => AutoEndScheduled
        /\ (/\ ~AutoEndFires
            /\ enabled_features["BLOCK_MSGS"]
            /\ LET N == Configured("block_message_count", 5)
               IN  IF Configured("block_repeat", TRUE) THEN count' % N = 0
                                                       ELSE count' = N)
           => CooldownStarts]_vars

\* ------------------------------------------------------------------- C33
\* this step is a one-second tick of a running cooldown that counts down
CountdownTick == blocking /\ remaining' = remaining - 1

\* C33: a cooldown of D seconds starts with remainingSeconds = D, loses one per
\* tick, never goes below zero, and input is enabled again at the tick that
\* brings it to zero, the D-th.
C33_InputBackAtZero ==
  /\ remaining >= 0
  /\ [][/\ CooldownStarts => remaining' = Configured("block_duration_s", 15)
        /\ (CountdownTick /\ remaining' = 0) => (input_enabled' /\ ~blocking')]_vars

\* ------------------------------------------------------------------- C34
\* C34: the activation of a blueprint block resets the history-erase timer:
\* under a blueprint at most one erase timer is armed, and the history is erased
\* only while the active block enables the erasure, a timer armed under an
\* earlier block firing no more.
C34_EraseTimerReset ==
  [][experiment_plan # <<>> =>
       /\ ArmedEraseTimers' <= 1
       /\ erase_count' = erase_count + 1 => enabled_features["ERASE_HISTORY"]]_vars

\* ------------------------------------------------------------------- C35
\* the active block of the blueprint sets the comparison-trial interval
BlockSetsInterval ==
  /\ experiment_plan # <<>>
  /\ current_block_index >= 0 /\ current_block_index < Len(experiment_plan)
  /\ "ab_test_message_threshold" \in
        DOMAIN Get(experiment_plan[current_block_index + 1], "settings", <<>>)

\* C35: in a block that overrides the comparison-trial interval, the turn of
\* index count + 1 is dispatched as a pair exactly when the index is a multiple
\* of the block's interval, whatever interval the session started with.
C35_BlockIntervalApplies ==
  [][(/\ Dispatches
      /\ BlockSetsInterval
      /\ enabled_features["AB_TESTING"]
      /\ ~enabled_features["AB_UI_TEST"] /\ ~enabled_features["AB_UI_ALT"]
      /\ ~StepPending)
     => LET interval == experiment_plan[current_block_index + 1].settings.ab_test_message_threshold
        IN  ({t.role : t \in Started} = {"A", "B"}) <=> ((count + 1) % interval = 0)]_vars

\* ------------------------------------------------------------------- C36
\* the sessions of Spec with the event loop's guarantees: a request that runs
\* ends with a result unless it fails, a pending timer fires, a running
\* countdown ticks, an open dialog is closed
SpecFair ==
  /\ Init /\ [][Next]_vars
  /\ WF_vars(ThreadResult)
  /\ WF_vars(TimerFire)
  /\ WF_vars(UpdateCountdown)
  /\ WF_vars(DialogDone)

\* the session has ended: the window is closed
SessionEnded == closed

\* C36: under fairness every accepted submission, which disables the input, is
\* eventually followed by the input being enabled again or by the session's
\* end; the input is never disabled forever.
C36_InputComesBack == ~input_enabled ~> (input_enabled \/ SessionEnded)

\* ------------------------------------------------------------------- C37
\* C37: the turn count and the assistant-turn count are equal in every state
\* and never decrease; a commit adds one to both and appends one assistant
\* entry to the history; a failed request, a history erase, a cooldown tick
\* and every other step leave both as they are.
C37_CountersInStep ==
  /\ [](count = assistant_message_count)
  /\ [][/\ count' \in {count, count + 1}
        /\ assistant_message_count' - assistant_message_count = count' - count
        /\ CommitsTurn =>
             /\ Len(history') = Len(history) + 1
             /\ SubSeq(history', 1, Len(history)) = history
             /\ history'[Len(history')].role = "assistant"
        /\ (\/ errors' # errors
            \/ erase_count' # erase_count
            \/ CountdownTick) => count' = count]_vars

\* two turns are committed, the history has been erased since and a cooldown
\* has started: both counters stand at 2
C37_Witness ==
  /\ count = 2 /\ assistant_message_count = 2
  /\ erase_count = 1
  /\ blocking

\* ------------------------------------------------------------------- C38
\* C38: the session's termination (export, debrief, worker shutdown, close) is
\* carried out at most once, whichever triggers fire: _end_chat exports once.
C38_TerminatesOnce == exports <= 1

\* ------------------------------------------------------------------- C39
\* C39: in the history every assistant entry comes right after a user entry,
\* the one of its turn, in every state, also when the history is erased
\* between a submission and its commit.
C39_AssistantFollowsUser ==
  \A i \in DOMAIN history :
    history[i].role = "assistant" => (i > 1 /\ history[i - 1].role = "user")

\* ------------------------------------------------------------------- C40
\* the runner is Complete: the index is the number of blocks
Complete == experiment_plan # <<>> /\ current_block_index = Len(experiment_plan)

====
